---- MODULE Spec2Model ----
(***************************************************************************)
(* Model of src/pages/components/algoVisualizer.tsx: the AlgorithmVisualizer *)
(* React component.  The component owns two pieces of state                 *)
(* (currentStepIndex, isPlaying), one autoplay interval created by a        *)
(* useEffect whose dependency list is [isPlaying, currentStepIndex], a       *)
(* static metadata table (algorithmInfo) and a render function.              *)
(*                                                                           *)
(* One action is one event-loop task: the handler, the re-render its        *)
(* setState calls cause and the effect cleanup/setup that the re-render      *)
(* triggers.  The interval keeps the nextStep closure of the render that     *)
(* armed it, so the cursor the timer callback reads is the captured one      *)
(* (interval.idx), not the live currentStepIndex.                            *)
(***************************************************************************)
EXTENDS Integers, Sequences, FiniteSets, TLC

\* Longest step sequence the caller supplies in the model.
MaxLen == 5

VARIABLES
    algorithm,          \* prop: selected algorithm name (line 4)
    steps,              \* prop: the step sequence (line 5)
    target,             \* prop: optional target value (line 6)
    currentStepIndex,   \* useState(0), line 87
    isPlaying,          \* useState(false), line 88
    interval,           \* the interval of the autoplay effect, lines 114-119
    liveIntervals,      \* number of intervals set and not yet cleared
    mounted,            \* the component is mounted
    userActive,         \* the user (and the host page) may still act
    last,               \* observer: the last operation and the state before it
    last2,              \* observer: the operation before the last one
    autoTicks           \* observer: ticks since togglePlay() at (0, paused)

vars == <<algorithm, steps, target, currentStepIndex, isPlaying, interval,
          liveIntervals, mounted, userActive, last, last2, autoTicks>>

props == <<algorithm, steps, target>>

----------------------------------------------------------------------------
(* JavaScript values *)

Undefined == [kind |-> "undefined"]

Truthy(v) == v.kind # "undefined"

\* Member access v.field in a JSX expression: a missing member is undefined.
Member(v, field) == IF field \in DOMAIN v THEN v[field] ELSE "undefined"

----------------------------------------------------------------------------
(* The static metadata table, lines 10-79 *)

AlgorithmKeys ==
    { "Linear Search", "Binary Search", "Depth-First Search",
      "Breadth-First Search", "Bubble Sort", "Selection Sort",
      "Insertion Sort", "Merge Sort", "Quick Sort" }

Info(d, t, s) ==
    [kind |-> "info", description |-> d, timeComplexity |-> t,
     spaceComplexity |-> s]

\* The descriptions are template literals; their line breaks and indentation
\* are written here as single spaces.
algorithmInfo ==
    [k \in AlgorithmKeys |->
      CASE k = "Linear Search" ->
             Info("Linear Search scans each element of the array one by one until the target value is found. It works for both sorted and unsorted arrays.",
                  "0(n)", "0(1)")
        [] k = "Binary Search" ->
             Info("Binary Search works by repeatedly dividing a sorted array in half and comparing the middle element with the target value. If the target is smaller, the left half is considered; if larger, the right half is considered.",
                  "0(log n)", "0(1)")
        [] k = "Depth-First Search" ->
             Info("Depth-First Search (DFS) explores as far as possible along a branch before backtracking. It's commonly used for tree and graph traversals.",
                  "0(V + E) (V: vertices, E: edges)",
                  "0(V) for recursive DFS due to the call stack")
        [] k = "Breadth-First Search" ->
             Info("Breadth-First Search (BFS) explores all the neighbor nodes at the present depth before moving on to nodes at the next depth level. It's often used for shortest path problems in unweighted graphs.",
                  "0(V + E) (V: vertices, E: edges)",
                  "0(V) for storing nodes in the queue")
        [] k = "Bubble Sort" ->
             Info("Bubble Sort compares adjacent elements in an array and swaps them if they are in the wrong order. It repeats this process until the array is sorted.",
                  "0(n^2)", "0(1)")
        [] k = "Selection Sort" ->
             Info("Selection Sort repeatedly finds the minimum element from the unsorted part of the array and swaps it with the first unsorted element, moving the boundary of the sorted part.",
                  "0(n^2)", "0(1)")
        [] k = "Insertion Sort" ->
             Info("Insertion Sort builds the sorted array one element at a time by picking elements and inserting them into their correct position in the already sorted part.",
                  "0(n^2)", "0(1)")
        [] k = "Merge Sort" ->
             Info("Merge Sort divides the array into two halves, recursively sorts each half, and then merges the two halves back together in sorted order.",
                  "0(n log n)",
                  "0(n) due to the extra space for the temporary arrays used during merging")
        [] k = "Quick Sort" ->
             Info("Quick Sort picks a pivot element, partitions the array around the pivot, and recursively sorts the partitions. It works efficiently in average cases but can degrade in performance in certain cases.",
                  "0(n log n) (average), 0(n^2) (worst case)",
                  "0(log n) for the recursion stack (best case), 0(n) (worst case)")]

\* algorithmInfo is an object literal, so its prototype is Object.prototype:
\* these names are found on the prototype chain by a property read.
ObjectPrototypeKeys ==
    { "constructor", "__proto__", "hasOwnProperty", "isPrototypeOf",
      "propertyIsEnumerable", "toLocaleString", "toString", "valueOf",
      "__defineGetter__", "__defineSetter__", "__lookupGetter__",
      "__lookupSetter__" }

\* const selectedAlgo = algorithmInfo[algorithm], line 128: an own key gives
\* its record, an inherited name gives the inherited function or object
\* (truthy, without description or complexities), anything else undefined.
selectedAlgo(name) ==
    IF name \in AlgorithmKeys THEN algorithmInfo[name]
    ELSE IF name \in ObjectPrototypeKeys THEN [kind |-> "inherited"]
    ELSE Undefined

----------------------------------------------------------------------------
(* The handlers, lines 90-110 and 175 *)

\* State as a pair the setters write to.
State(i, p) == [idx |-> i, playing |-> p]

Current == State(currentStepIndex, isPlaying)

\* Variants of nextStep with a plausible slip, used to test the properties.
nextStep_offByOne(c, st) ==
    IF c <= Len(steps) - 1
    THEN [st EXCEPT !.idx = c + 1]
    ELSE [st EXCEPT !.playing = FALSE]

nextStep_stopOnArrival(c, st) ==
    IF c < Len(steps) - 1
    THEN [st EXCEPT !.idx = c + 1,
                    !.playing = IF c + 1 = Len(steps) - 1 THEN FALSE ELSE @]
    ELSE [st EXCEPT !.playing = FALSE]

nextStep_neverStops(c, st) ==
    IF c < Len(steps) - 1
    THEN [st EXCEPT !.idx = c + 1]
    ELSE st

\* nextStep, lines 91-97.  c is the currentStepIndex of the closure that runs.
nextStep(c, st) ==
    IF c < Len(steps) - 1
    THEN [st EXCEPT !.idx = c + 1]
    ELSE [st EXCEPT !.playing = FALSE]

prevStep_pauses(c, st) ==
    IF c > 0
    THEN [st EXCEPT !.idx = c - 1, !.playing = FALSE]
    ELSE st

prevStep_noGuard(c, st) == [st EXCEPT !.idx = c - 1]

\* prevStep, lines 100-104.
prevStep(c, st) ==
    IF c > 0
    THEN [st EXCEPT !.idx = c - 1]
    ELSE st

restart_keepsPlaying(st) == [st EXCEPT !.idx = 0]

\* restart, lines 107-110.
restart(st) == State(0, FALSE)

togglePlay_onlyStarts(p, st) == [st EXCEPT !.playing = TRUE]

\* Play/Pause onClick, line 175.  p is the isPlaying of the closure.
togglePlay(p, st) == [st EXCEPT !.playing = ~p]

----------------------------------------------------------------------------
(* The autoplay effect, lines 113-126 *)

NoInterval == [armed |-> FALSE, idx |-> 0]

\* Variant of the dependency list without the cursor.
EffectDeps_onlyPlaying(st) == <<st.playing>>

\* The dependency list of the effect, line 126.
EffectDeps(st) == <<st.playing, st.idx>>

\* Variant of the effect whose cleanup does not clear the interval.
useEffect_noCleanup(old, new, iv) ==
    IF <<old.playing, old.idx>> = <<new.playing, new.idx>> THEN iv
    ELSE IF new.playing THEN [armed |-> TRUE, idx |-> new.idx]
    ELSE iv

\* Variant of the effect that arms the interval with the previous closure.
useEffect_staleClosure(old, new, iv) ==
    IF <<old.playing, old.idx>> = <<new.playing, new.idx>> THEN iv
    ELSE IF new.playing THEN [armed |-> TRUE, idx |-> old.idx]
    ELSE [armed |-> FALSE, idx |-> 0]

\* The effect after a render that took the state from old to new: when a
\* dependency changed, the cleanup of the previous run clears its interval
\* (a cleanup exists only if that run saw isPlaying), and the body arms a new
\* interval, holding the nextStep of this render, if isPlaying.
useEffect(old, new, iv) ==
    IF EffectDeps(old) = EffectDeps(new) THEN iv
    ELSE IF new.playing THEN [armed |-> TRUE, idx |-> new.idx]
    ELSE NoInterval

\* Variant of the count in which the effect returns no cleanup.
setAndClear_noCleanup(old, new, n) ==
    IF <<old.playing, old.idx>> = <<new.playing, new.idx>> THEN n
    ELSE n + (IF new.playing THEN 1 ELSE 0)

\* The setInterval and clearInterval calls of the same effect run, counted:
\* the cleanup (lines 122-124) exists only if the previous run saw isPlaying
\* and clears the one interval of that run; the body sets one if isPlaying.
setAndClear(old, new, n) ==
    IF EffectDeps(old) = EffectDeps(new) THEN n
    ELSE (n - (IF old.playing THEN 1 ELSE 0)) + (IF new.playing THEN 1 ELSE 0)

----------------------------------------------------------------------------
(* The render output, lines 130-202 *)

NextDisabled_pastEnd == currentStepIndex = Len(steps)

\* disabled of the Next button, line 182.
NextDisabled == currentStepIndex = Len(steps) - 1

PrevDisabled == currentStepIndex = 0

TargetShown_needsTarget(name) ==
    (name = "Linear Search" \/ name = "Binary Search") /\ target # Undefined

\* The condition of the target line, line 165.
TargetShown(name) == name = "Linear Search" \/ name = "Binary Search"

View ==
    [fallback    |-> ~Truthy(selectedAlgo(algorithm)),
     block       |-> Truthy(selectedAlgo(algorithm)),
     description |-> Member(selectedAlgo(algorithm), "description"),
     time        |-> Member(selectedAlgo(algorithm), "timeComplexity"),
     space       |-> Member(selectedAlgo(algorithm), "spaceComplexity"),
     targetLine  |-> TargetShown(algorithm),
     stepInRange |-> currentStepIndex + 1 \in DOMAIN steps,
     playLabel   |-> IF isPlaying THEN "Pause" ELSE "Play",
     nextDisabled |-> NextDisabled,
     prevDisabled |-> PrevDisabled]

----------------------------------------------------------------------------
(* Inputs *)

AlgorithmNames ==
    AlgorithmKeys \cup
    { "Unknown Algo", "", "linear search", "constructor", "__proto__" }

Number(n) == [kind |-> "number", value |-> n]

Targets == { Undefined, Number(7) }

StepSequences == { [i \in 1..n |-> "step"] : n \in 0..MaxLen }

----------------------------------------------------------------------------
(* Actions *)

Init ==
    /\ algorithm \in AlgorithmNames
    /\ steps \in StepSequences
    /\ target \in Targets
    /\ currentStepIndex = 0
    /\ isPlaying = FALSE
    /\ interval = NoInterval
    /\ liveIntervals = 0
    /\ mounted = TRUE
    /\ userActive = TRUE
    /\ last = [op |-> "init", idx |-> 0, playing |-> FALSE]
    /\ last2 = [op |-> "init", idx |-> 0, playing |-> FALSE]
    /\ autoTicks = -1

\* A handler ran and left the state new: React re-renders and runs the effect.
Commit(op, new) ==
    /\ currentStepIndex' = new.idx
    /\ isPlaying' = new.playing
    /\ interval' = useEffect(Current, new, interval)
    /\ liveIntervals' = setAndClear(Current, new, liveIntervals)
    /\ last' = [op |-> op, idx |-> currentStepIndex, playing |-> isPlaying]
    /\ last2' = last
    /\ autoTicks' =
         IF op = "togglePlay" /\ currentStepIndex = 0 /\ ~isPlaying THEN 0
         ELSE IF op = "tick" /\ autoTicks >= 0 THEN autoTicks + 1
         ELSE -1
    /\ UNCHANGED <<props, mounted, userActive>>

TogglePlay ==
    /\ mounted /\ userActive
    /\ Commit("togglePlay", togglePlay(isPlaying, Current))

\* A click on Next: the button is disabled at the last step (line 182).
ClickNext ==
    /\ mounted /\ userActive
    /\ ~NextDisabled
    /\ Commit("next", nextStep(currentStepIndex, Current))

\* A click on Previous: the button is disabled at step 0 (line 189).
ClickPrevious ==
    /\ mounted /\ userActive
    /\ ~PrevDisabled
    /\ Commit("previous", prevStep(currentStepIndex, Current))

Restart ==
    /\ mounted /\ userActive
    /\ Commit("restart", restart(Current))

\* The interval fires: its callback runs the nextStep it captured.
Tick ==
    /\ mounted
    /\ interval.armed
    /\ Commit("tick", nextStep(interval.idx, Current))

\* The host removes the component: the cleanup of the effect runs.
Unmount ==
    /\ mounted /\ userActive
    /\ mounted' = FALSE
    /\ interval' = NoInterval
    /\ liveIntervals' = liveIntervals - (IF isPlaying THEN 1 ELSE 0)
    /\ last' = [op |-> "unmount", idx |-> currentStepIndex, playing |-> isPlaying]
    /\ last2' = last
    /\ autoTicks' = -1
    /\ UNCHANGED <<props, currentStepIndex, isPlaying, userActive>>

\* The user stops interacting with the page (and the host keeps it mounted).
UserLeaves ==
    /\ mounted /\ userActive
    /\ userActive' = FALSE
    /\ UNCHANGED <<props, currentStepIndex, isPlaying, interval, liveIntervals,
                   mounted, last, last2, autoTicks>>

Next ==
    \/ TogglePlay
    \/ ClickNext
    \/ ClickPrevious
    \/ Restart
    \/ Tick
    \/ Unmount
    \/ UserLeaves

Spec == Init /\ [][Next]_vars

\* The interval fires every 1000 ms for as long as it is armed.
FairSpec == Spec /\ WF_vars(Tick)

----------------------------------------------------------------------------
(* The operations called directly, whatever the buttons' disabled state *)

CallNext ==
    /\ mounted /\ userActive
    /\ Commit("next", nextStep(currentStepIndex, Current))

CallPrevious ==
    /\ mounted /\ userActive
    /\ Commit("previous", prevStep(currentStepIndex, Current))

NextOps ==
    \/ TogglePlay
    \/ CallNext
    \/ CallPrevious
    \/ Restart
    \/ Tick
    \/ Unmount
    \/ UserLeaves

SpecOps == Init /\ [][NextOps]_vars

----------------------------------------------------------------------------
TypeOK ==
    /\ algorithm \in AlgorithmNames
    /\ steps \in StepSequences
    /\ target \in Targets
    /\ currentStepIndex \in 0..MaxLen
    /\ isPlaying \in BOOLEAN
    /\ interval.armed \in BOOLEAN
    /\ liveIntervals \in Nat
    /\ mounted \in BOOLEAN
    /\ userActive \in BOOLEAN

----------------------------------------------------------------------------
(* Properties *)

L == Len(steps)

\* C1: for a step sequence of length n > 0 the cursor stays within 0..n-1 in
\* every state reachable by clicks on the controls and timer ticks.
C1_CursorInRange ==
    L > 0 => (0 <= currentStepIndex /\ currentStepIndex <= L - 1)

\* The timer fired at the last index of the longest sequence.
C1_Witness ==
    /\ L = MaxLen
    /\ last.op = "tick" /\ last.idx = L - 1
    /\ currentStepIndex = L - 1

\* C2 as stated: arriving at the last index by a tick or by next() leaves
\* isPlaying false, and with 5 steps togglePlay() and 4 ticks end in
\* cursor = 4 and isPlaying = false.
C2_StopsOnArrival ==
    /\ (/\ last.op \in {"tick", "next"}
        /\ last.idx = L - 2 /\ currentStepIndex = L - 1)
       => (~isPlaying /\ NextDisabled)
    /\ (L = 5 /\ autoTicks = 4) => (currentStepIndex = 4 /\ ~isPlaying)

\* C2 amended: arriving at the last index leaves isPlaying as it was and
\* disables Next; the tick that runs at the last index sets isPlaying to
\* false, keeps the cursor and leaves no timer armed.  After togglePlay() at
\* (0, paused), n-1 ticks give cursor = n-1 with isPlaying still true, the
\* n-th tick gives isPlaying = false, and no further tick can occur.
C2_StopsOneTickLater ==
    /\ (/\ last.op \in {"tick", "next"}
        /\ last.idx = L - 2 /\ currentStepIndex = L - 1)
       => (isPlaying = last.playing /\ NextDisabled)
    /\ (last.op = "tick" /\ last.idx = L - 1)
       => (currentStepIndex = L - 1 /\ ~isPlaying /\ ~interval.armed)
    /\ (L > 0 /\ autoTicks = L - 1)
       => (currentStepIndex = L - 1 /\ isPlaying)
    /\ (L > 0 /\ autoTicks = L)
       => (currentStepIndex = L - 1 /\ ~isPlaying /\ ~ENABLED Tick)

\* Five steps, togglePlay() and five ticks.
C2_Witness ==
    /\ L = 5 /\ autoTicks = 5
    /\ last.op = "tick" /\ last.idx = 4 /\ last.playing

\* C3: restart() in any state yields cursor = 0 and isPlaying = false, and no
\* timer is left that could alter that state.
C3_RestartResets ==
    last.op = "restart"
    => /\ currentStepIndex = 0 /\ ~isPlaying
       /\ ~interval.armed /\ ~ENABLED Tick

\* restart() while playing in the middle of the sequence, right after a tick.
C3_Witness ==
    /\ last.op = "restart" /\ last.playing /\ last.idx > 0
    /\ last2.op = "tick"

\* C4: next() below the last index adds one to the cursor and leaves
\* isPlaying; at the last index it leaves the cursor and isPlaying is false
\* afterwards.
C4_NextContract ==
    last.op \in {"next", "tick"}
    => IF last.idx < L - 1
       THEN currentStepIndex = last.idx + 1 /\ isPlaying = last.playing
       ELSE currentStepIndex = last.idx /\ ~isPlaying

\* next() advanced to the last index and was then called again there, paused.
C4_Witness ==
    /\ L > 1
    /\ last.op = "next" /\ last.idx = L - 1 /\ ~last.playing
    /\ last2.op = "next" /\ last2.idx = L - 2

\* C5: previous() above 0 subtracts one from the cursor, at 0 it changes
\* nothing, and it leaves isPlaying in both cases.
C5_PreviousContract ==
    last.op = "previous"
    => /\ currentStepIndex = IF last.idx > 0 THEN last.idx - 1 ELSE last.idx
       /\ isPlaying = last.playing

\* previous() from 1 to 0 and again at 0, while playing.
C5_Witness ==
    /\ last.op = "previous" /\ last.idx = 0 /\ last.playing
    /\ last2.op = "previous" /\ last2.idx = 1

\* C6: togglePlay() negates isPlaying and leaves the cursor, at the last
\* index too; two togglePlay() in a row restore cursor and isPlaying.
C6_ToggleContract ==
    /\ last.op = "togglePlay"
       => (currentStepIndex = last.idx /\ isPlaying = ~last.playing)
    /\ (last.op = "togglePlay" /\ last2.op = "togglePlay")
       => (currentStepIndex = last2.idx /\ isPlaying = last2.playing)

\* Two togglePlay() in a row at the last index, starting from playing.
C6_Witness ==
    /\ L > 1 /\ currentStepIndex = L - 1
    /\ last.op = "togglePlay" /\ last2.op = "togglePlay" /\ last2.playing

\* C7: when playback has stopped (pause, stop at the end, restart, unmount)
\* no timer is armed and no tick can happen; ticks happen only in states
\* where isPlaying is true.
C7_NoTimerWhenStopped ==
    /\ (~isPlaying \/ ~mounted) => (~interval.armed /\ ~ENABLED Tick)
    /\ last.op = "tick" => last.playing

\* Paused by togglePlay() right after a tick.
C7_Witness ==
    /\ last.op = "togglePlay" /\ last.playing /\ ~isPlaying
    /\ last2.op = "tick"

\* C8: every tick below the last index advances the cursor by one, and once
\* the user has left a playing, mounted component with a non-empty sequence,
\* the cursor reaches the last index with isPlaying false and stays there.
C8_AutoplayTerminates ==
    /\ [][Tick => IF currentStepIndex < L - 1
                  THEN currentStepIndex' = currentStepIndex + 1
                  ELSE currentStepIndex' = currentStepIndex /\ ~isPlaying']_vars
    /\ (L > 0 /\ isPlaying /\ mounted /\ ~userActive)
         ~> [](currentStepIndex = L - 1 /\ ~isPlaying)

\* The user left and autoplay ran to its end.
C8_Witness ==
    /\ L > 1 /\ ~userActive /\ mounted
    /\ last.op = "tick" /\ last2.op = "tick"
    /\ currentStepIndex = L - 1 /\ ~isPlaying

\* C9: a name that is not one of the nine keys shows the fallback prompt and
\* no metadata block; each of the nine keys shows the block with its
\* description and complexities.
C9_LookupFallback ==
    /\ algorithm \notin AlgorithmKeys => (View.fallback /\ ~View.block)
    /\ algorithm \in AlgorithmKeys
       => /\ View.block /\ ~View.fallback
          /\ View.description = algorithmInfo[algorithm].description
          /\ View.time = algorithmInfo[algorithm].timeComplexity
          /\ View.space = algorithmInfo[algorithm].spaceComplexity

\* C10: the target line is rendered exactly for the names "Linear Search"
\* and "Binary Search", whatever the cursor, isPlaying and the target.
C10_TargetLine ==
    View.targetLine <=> algorithm \in {"Linear Search", "Binary Search"}

\* A search algorithm without a target, playing past the first step.
C10_Witness ==
    /\ algorithm = "Binary Search" /\ target = Undefined
    /\ isPlaying /\ currentStepIndex > 0

\* C11: at most one interval is live at any time, and while the component is
\* mounted one is live exactly when isPlaying is true; a manual next() or
\* previous() during playback that leaves isPlaying true leaves exactly one.
C11_OneTimer ==
    /\ liveIntervals <= 1
    /\ interval.armed <=> liveIntervals = 1
    /\ mounted => (liveIntervals = 1 <=> isPlaying)
    /\ (last.op \in {"next", "previous"} /\ last.playing /\ isPlaying /\ mounted)
       => (liveIntervals = 1 /\ interval.armed)

\* next() and then previous() were clicked during playback.
C11_Witness ==
    /\ mounted /\ isPlaying
    /\ last.op = "previous" /\ last.playing /\ last.idx > 0
    /\ last2.op = "next" /\ last2.playing

\* C12: the cursor captured by the armed timer callback is the current
\* cursor, so a tick writes current + 1 (or stops at the end) and never a
\* value computed from an older cursor, also after previous() or restart().
C12_NoStaleCursor ==
    /\ interval.armed => interval.idx = currentStepIndex
    /\ last.op = "tick"
       => currentStepIndex = IF last.idx < L - 1 THEN last.idx + 1 ELSE last.idx
    /\ (last.op = "tick" /\ last2.op = "previous")
       => currentStepIndex = last2.idx \/ last.idx = L - 1

\* A tick right after previous() during playback.
C12_Witness ==
    /\ last.op = "tick" /\ last.playing
    /\ last2.op = "previous" /\ last2.playing /\ last2.idx > 1
    /\ currentStepIndex = last2.idx

\* C13: a click on Next is possible exactly when the cursor is not length-1,
\* a click on Previous exactly when it is not 0, Play/Pause and Restart always;
\* so nextStep at the last step and prevStep at step 0 never run from a click.
C13_ControlsEnabled ==
    /\ (mounted /\ userActive)
       => /\ ENABLED ClickNext <=> currentStepIndex # L - 1
          /\ ENABLED ClickPrevious <=> currentStepIndex # 0
          /\ ENABLED TogglePlay
          /\ ENABLED Restart
    /\ View.nextDisabled <=> currentStepIndex = L - 1
    /\ View.prevDisabled <=> currentStepIndex = 0
    /\ last.op = "next" => last.idx # L - 1
    /\ last.op = "previous" => last.idx # 0

\* At the last step with the user present: the timer ran nextStep there.
C13_Witness ==
    /\ L > 1 /\ currentStepIndex = L - 1
    /\ mounted /\ userActive
    /\ last.op = "tick" /\ last.idx = L - 1

\* C14: togglePlay() at the last index while paused gives isPlaying = true
\* with the timer armed; a playing state at the last index has its timer
\* armed there, and the tick then gives isPlaying = false with the cursor
\* unchanged and no timer.
C14_PlayAtEnd ==
    /\ (last.op = "togglePlay" /\ last.idx = L - 1 /\ ~last.playing)
       => (isPlaying /\ currentStepIndex = L - 1 /\ liveIntervals = 1)
    /\ (mounted /\ isPlaying /\ currentStepIndex = L - 1)
       => (ENABLED Tick /\ interval.idx = L - 1)
    /\ (/\ last.op = "tick"
        /\ last2.op = "togglePlay" /\ last2.idx = L - 1 /\ ~last2.playing)
       => (~isPlaying /\ currentStepIndex = L - 1 /\ liveIntervals = 0)

\* togglePlay() at the last index, then one tick.
C14_Witness ==
    /\ L > 1
    /\ last.op = "tick" /\ last.idx = L - 1
    /\ last2.op = "togglePlay" /\ last2.idx = L - 1 /\ ~last2.playing

\* C15: with an empty sequence the cursor is 0 in every state, next() only
\* sets isPlaying to false, previous() changes nothing, the Next control is
\* never disabled and index 0 is outside the sequence.
C15_EmptySequence ==
    L = 0
    => /\ currentStepIndex = 0
       /\ ~View.nextDisabled
       /\ (mounted /\ userActive) => ENABLED ClickNext
       /\ ~View.stepInRange
       /\ last.op \in {"next", "tick"} => ~isPlaying
       /\ last.op = "previous" => isPlaying = last.playing

\* Empty sequence: next() while playing, then previous().
C15_Witness ==
    /\ L = 0
    /\ last.op = "previous"
    /\ last2.op = "next" /\ last2.playing

\* C16: every step leaves the cursor, moves it by one, or (restart) sets it
\* to 0; and from a state with isPlaying false only next(), previous() and
\* restart() change the cursor.
C16_NoSkip ==
    /\ [][\/ currentStepIndex' = currentStepIndex
          \/ currentStepIndex' = currentStepIndex + 1
          \/ currentStepIndex' = currentStepIndex - 1
          \/ (Restart /\ currentStepIndex' = 0)]_vars
    /\ [][(~isPlaying /\ currentStepIndex' # currentStepIndex)
          => (ClickNext \/ ClickPrevious \/ Restart) /\ ~ENABLED Tick]_vars

\* The cursor moved by previous() while paused, after a tick and a pause.
C16_Witness ==
    /\ last.op = "previous" /\ ~last.playing /\ last.idx > 1
    /\ currentStepIndex = last.idx - 1
    /\ last2.op = "togglePlay"

====
